---- MODULE Spec2Model ----
(***************************************************************************)
(* A model of the blog application: the blog router (blogRouter.ts) over   *)
(* the relational store it reaches through the ORM, and the ImageContainer *)
(* component.  Strings the code takes apart (titles, slugs, tag names) are *)
(* sequences of one-character strings; the other strings are atoms.        *)
(***************************************************************************)
EXTENDS Bags, FiniteSets, Integers, Sequences, TLC

\* ------------------------------------------------------------- bounds
MaxPosts == 2
MaxCreates == 2
MaxInFlight == 2
MaxQueryPosts == 12
MaxTicks == 1
MaxComments == 1
MaxReactions == 1
NumContainers == 2
BootTime == 9

\* ------------------------------------------------------------- inputs
Users == {"u1", "u2"}
NoSession == "no-session"
Callers == Users \cup {NoSession}
CategoryEnum == {"TECH", "LIFE"}
Titles == {<<"a", " ", "a">>, <<"b", " ", "a">>, <<"a", " ", " ", "b">>}
Subtitles == {"s1"}
NewSubtitles == {"s2"}
Bodies == {"b1"}
Images == {"", "i"}
NULL == "null"
ReactionTypes == {"LIKE"}
TieOrders == {"insertion", "reverse"}
ClassNames == {"h-8", "h-12"}
Genders == {"Male", "Female"}

\* ------------------------------------------------------------- strings
\* String.prototype.split(" "): the pieces between the separators, empty
\* pieces included; a string with no separator is one piece.
Split(s) ==
  LET F[i \in 0..Len(s)] ==
        IF i = 0 THEN << <<>> >>
        ELSE IF s[i] = " " THEN Append(F[i - 1], <<>>)
        ELSE [F[i - 1] EXCEPT ![Len(F[i - 1])] = Append(@, s[i])]
  IN F[Len(s)]

\* Array.prototype.join("-")
RECURSIVE Join(_)
Join(words) ==
  IF Len(words) = 0 THEN <<>>
  ELSE IF Len(words) = 1 THEN words[1]
  ELSE words[1] \o <<"-">> \o Join(Tail(words))

DigitChar(d) ==
  CASE d = 0 -> "0" [] d = 1 -> "1" [] d = 2 -> "2" [] d = 3 -> "3"
    [] d = 4 -> "4" [] d = 5 -> "5" [] d = 6 -> "6" [] d = 7 -> "7"
    [] d = 8 -> "8" [] d = 9 -> "9"

\* Number-to-string conversion of  "-" + Date.now()
RECURSIVE NumberToString(_)
NumberToString(n) ==
  IF n < 10 THEN <<DigitChar(n)>>
  ELSE Append(NumberToString(n \div 10), DigitChar(n % 10))

\* Mutant: the separator before the timestamp is left out.
SlugOf_NoSeparator(tagArray, dateNow) ==
  Join(tagArray) \o NumberToString(dateNow)

\* const slug = tagArray.join("-") + "-" + Date.now();
SlugOf(tagArray, dateNow) == Join(tagArray) \o <<"-">> \o NumberToString(dateNow)

\* image: image || null
ImageOrNull(image) == IF image = "" THEN NULL ELSE image

\* ------------------------------------------------------------- state
VARIABLES
  post,        \* Post table: id -> row
  category,    \* Category table: set of rows
  tag,         \* Tag table: set of rows
  comment,     \* Comment table: set of rows
  reaction,    \* Reaction table: set of rows
  nextId,      \* ids handed out so far, per table
  now,         \* the clock: read by Date.now() in the resolver and, later,
               \* by the createdAt default when the post is written
  resp,        \* outcome of the most recent procedure call
  containers,  \* mounted ImageContainer instances: props and state
  pending      \* createNewBlog resolvers suspended at prisma.post.create:
               \* a bag of calls

store == <<post, category, tag, comment, reaction>>
vars == <<post, category, tag, comment, reaction, nextId, now, resp, containers,
         pending>>
ui == <<containers>>

\* resp.local holds the handler's locals: deleteBlog after a delete, the
\* tags, the slug and the value of Date.now() after a create.
NoResp == [op |-> "none", caller |-> NoSession, input |-> <<>>, status |-> 0,
           code |-> "NONE", data |-> <<>>, local |-> <<>>]

\* ------------------------------------------------------------- tRPC
\* Every procedure of the router is built from protectedProcedure.
createNewBlogProcedure == "protectedProcedure"
getAllBlogsProcedure == "protectedProcedure"
getBlogsByCategoryProcedure == "protectedProcedure"
getBlogByIdProcedure == "protectedProcedure"
getBlogByUserIdProcedure == "protectedProcedure"
updateBlogByIdProcedure == "protectedProcedure"
deleteBlogByBlogIdProcedure_Public == "publicProcedure"
deleteBlogByBlogIdProcedure == "protectedProcedure"

\* protectedProcedure lets a call through only with a session user;
\* publicProcedure lets every call through.
Admits(procedure, caller) ==
  procedure = "publicProcedure" \/ caller \in Users

Reply(op, caller, input, status, code, data) ==
  [op |-> op, caller |-> caller, input |-> input, status |-> status,
   code |-> code, data |-> data, local |-> <<>>]

\* The middleware's TRPCError({ code: "UNAUTHORIZED" })
Unauthorized(op, caller, input) ==
  Reply(op, caller, input, 401, "UNAUTHORIZED", <<>>)

\* An exception of the ORM escaping the resolver
InternalError(op, caller, input) ==
  Reply(op, caller, input, 500, "INTERNAL_SERVER_ERROR", <<>>)

Rejected(op, caller, input) ==
  /\ resp' = Unauthorized(op, caller, input)
  /\ UNCHANGED <<store, nextId, now, pending, ui>>

\* ------------------------------------------------------------- ORM
CategoryNamed(name) == {c \in category : c.category_name = name}

\* Mutant: create without looking for an existing row.
ConnectOrCreate_AlwaysCreate(name) ==
  [row |-> [id |-> nextId.category, category_name |-> name], created |-> TRUE]

\* connectOrCreate { where: { category_name }, create: { category_name } }
ConnectOrCreate(name) ==
  IF CategoryNamed(name) # {}
    THEN [row |-> CHOOSE c \in CategoryNamed(name) : TRUE, created |-> FALSE]
    ELSE [row |-> [id |-> nextId.category, category_name |-> name],
          created |-> TRUE]

\* tags: { createMany: { data: tagArray.map((i) => ({ tag_name: i })) } }
TagRows(tagArray, postId) ==
  {[id |-> <<postId, i>>, tag_name |-> tagArray[i], postId |-> postId] :
     i \in 1..Len(tagArray)}

CategoryOf(p) == CHOOSE c \in category : c.id = p.categoryId
CommentsOf(id) == {c \in comment : c.postId = id}
ReactionsOf(id) == {r \in reaction : r.postId = id}
TagsOf(id) == {t \in tag : t.postId = id}

\* ------------------------------------------------------------- createNewBlog
CreateInputs ==
  [title : Titles, subtitle : Subtitles, body : Bodies, image : Images,
   category : CategoryEnum]

\* The resolver up to its await: the tags and the slug are computed from the
\* title and from Date.now(), and the call to prisma.post.create is made.
\* The resolver is then suspended; other calls and the clock go on.
createNewBlog(caller, input) ==
  IF ~Admits(createNewBlogProcedure, caller)
    THEN Rejected("createNewBlog", caller, input)
    ELSE
      LET dateNow == now
          tagArray == Split(input.title)
          slug == SlugOf(tagArray, dateNow)
          authorId == caller
      IN /\ pending' = pending (+) SetToBag(
                         {[caller |-> caller, input |-> input,
                           tagArray |-> tagArray, slug |-> slug,
                           authorId |-> authorId, dateNow |-> dateNow]})
         /\ UNCHANGED <<store, nextId, now, resp, ui>>

\* prisma.post.create settles for a suspended resolver.  Either the
\* database rejects the write (a unique key, a row to connect that is not
\* there): nothing is written and the resolver rethrows.  Or the post is
\* written with its category and tags, createdAt taking the time of the
\* write, and the resolver returns 201 with the post.
\* resp.local holds the resolver's locals.
postCreate(call, rejects) ==
  LET cat == ConnectOrCreate(call.input.category)
      id == nextId.post
      row == [id |-> id, title |-> call.input.title,
              subtitle |-> call.input.subtitle,
              image |-> ImageOrNull(call.input.image),
              body |-> call.input.body, authorId |-> call.authorId,
              slug |-> call.slug,
              categoryId |-> cat.row.id, createdAt |-> now]
      locals == <<[tagArray |-> call.tagArray, slug |-> call.slug,
                   authorId |-> call.authorId, dateNow |-> call.dateNow]>>
  IN /\ pending' = pending (-) SetToBag({call})
     /\ IF rejects
          THEN /\ resp' = [InternalError("createNewBlog", call.caller, call.input)
                             EXCEPT !.local = locals]
               /\ UNCHANGED <<store, nextId, now, ui>>
          ELSE /\ post' = [j \in DOMAIN post \cup {id} |->
                             IF j = id THEN row ELSE post[j]]
               /\ category' = category \cup {cat.row}
               /\ tag' = tag \cup TagRows(call.tagArray, id)
               /\ nextId' = [nextId EXCEPT !.post = @ + 1,
                               !.category = IF cat.created THEN @ + 1 ELSE @]
               /\ resp' = [Reply("createNewBlog", call.caller, call.input,
                                 201, "OK",
                                 <<[post |-> row, category |-> cat.row]>>)
                             EXCEPT !.local = locals]
               /\ UNCHANGED <<comment, reaction, now, ui>>

\* ------------------------------------------------------------- queries
\* orderBy: { createdAt: "desc" }.  Rows with equal createdAt come in an
\* order the database picks: by insertion or its reverse.
Before(p, q, tie) ==
  \/ p.createdAt > q.createdAt
  \/ /\ p.createdAt = q.createdAt
     /\ IF tie = "insertion" THEN p.id < q.id ELSE p.id > q.id

\* The row p put at its place in the ordered rows.
InsertOrdered(ordered, p, tie) ==
  LET k == Cardinality({i \in 1..Len(ordered) : Before(ordered[i], p, tie)})
  IN SubSeq(ordered, 1, k) \o <<p>> \o SubSeq(ordered, k + 1, Len(ordered))

RECURSIVE OrderByCreatedAtDesc(_, _)
OrderByCreatedAtDesc(rows, tie) ==
  IF rows = {} THEN <<>>
  ELSE LET p == CHOOSE q \in rows : TRUE
       IN InsertOrdered(OrderByCreatedAtDesc(rows \ {p}, tie), p, tie)

\* take: 10
TakeLimit == 10
\* Mutant: one row too many.
Take_OneMore(rows, n) ==
  SubSeq(rows, 1, IF Len(rows) < n + 1 THEN Len(rows) ELSE n + 1)
Take(rows, n) == SubSeq(rows, 1, IF Len(rows) < n THEN Len(rows) ELSE n)

Rows(f) == {f[i] : i \in DOMAIN f}

Count(p) ==
  [comment |-> Cardinality(CommentsOf(p.id)),
   reaction |-> Cardinality(ReactionsOf(p.id))]

\* select: { id, image, title, subtitle, createdAt, category, _count }
SelectListed(p) ==
  [id |-> p.id, image |-> p.image, title |-> p.title, subtitle |-> p.subtitle,
   createdAt |-> p.createdAt, category |-> CategoryOf(p), count |-> Count(p)]

\* include: { _count }
IncludeCount(p) == [post |-> p, count |-> Count(p)]

\* include: { user: { select }, reaction: { select: { type, user } } }
IncludeUserReaction(p) ==
  [post |-> p, user |-> [id |-> p.authorId],
   reaction |-> {[type |-> r.type, user |-> [id |-> r.userId]] :
                   r \in ReactionsOf(p.id)}]

Answered(op, caller, input, data) ==
  /\ resp' = Reply(op, caller, input, 200, "OK", data)
  /\ UNCHANGED <<store, nextId, now, pending, ui>>

getAllBlogs(caller, tie) ==
  IF ~Admits(getAllBlogsProcedure, caller)
    THEN Rejected("getAllBlogs", caller, <<>>)
    ELSE LET blogs == OrderByCreatedAtDesc(Rows(post), tie) IN
         Answered("getAllBlogs", caller, <<>>,
                  [i \in 1..Len(blogs) |-> SelectListed(blogs[i])])

\* where: { category: { category_name: input.category_name } }
InCategory(name) ==
  {p \in Rows(post) : CategoryOf(p).category_name = name}

getBlogsByCategory(caller, input, tie) ==
  IF ~Admits(getBlogsByCategoryProcedure, caller)
    THEN Rejected("getBlogsByCategory", caller, input)
    ELSE LET blogs == Take(OrderByCreatedAtDesc(
                            InCategory(input.category_name), tie), TakeLimit) IN
         Answered("getBlogsByCategory", caller, input,
                  [i \in 1..Len(blogs) |-> SelectListed(blogs[i])])

\* findFirst({ where: { id } }): the row, or null
getBlogById(caller, input) ==
  IF ~Admits(getBlogByIdProcedure, caller)
    THEN Rejected("getBlogById", caller, input)
    ELSE Answered("getBlogById", caller, input,
           IF input.id \in DOMAIN post
             THEN <<IncludeUserReaction(post[input.id])>> ELSE <<>>)

\* where: { authorId: input.userId }
ByAuthor(userId) == {p \in Rows(post) : p.authorId = userId}

getBlogByUserId(caller, input, tie) ==
  IF ~Admits(getBlogByUserIdProcedure, caller)
    THEN Rejected("getBlogByUserId", caller, input)
    ELSE LET blogs == OrderByCreatedAtDesc(ByAuthor(input.userId), tie) IN
         Answered("getBlogByUserId", caller, input,
                  [i \in 1..Len(blogs) |-> IncludeCount(blogs[i])])

\* ------------------------------------------------------------- updateBlogById
\* An update input: the id and any of the other fields.  An optional
\* field is <<>> when left out and <<v>> when given.
Optional(values) == {<<>>} \cup {<<v>> : v \in values}

UpdateInput(id, title, subtitle, body) ==
  LET given == {"id"} \cup (IF title = <<>> THEN {} ELSE {"title"})
                      \cup (IF subtitle = <<>> THEN {} ELSE {"subtitle"})
                      \cup (IF body = <<>> THEN {} ELSE {"body"})
  IN [f \in given |->
        CASE f = "id" -> id
          [] f = "title" -> title[1]
          [] f = "subtitle" -> subtitle[1]
          [] f = "body" -> body[1]]

\* const { id, ...restInput } = input;
RestInput(input) == [f \in DOMAIN input \ {"id"} |-> input[f]]

\* Mutant: the columns left out of the input are written as empty strings.
WriteColumns_Overwrite(row, rest) ==
  [f \in DOMAIN row |->
     IF f \in DOMAIN rest THEN rest[f]
     ELSE IF f = "title" THEN <<>>
     ELSE IF f \in {"subtitle", "body"} THEN "" ELSE row[f]]

\* data: { ...restInput }: the given columns are written, the others kept
WriteColumns(row, rest) ==
  [f \in DOMAIN row |-> IF f \in DOMAIN rest THEN rest[f] ELSE row[f]]

\* Mutant: only the author may update.
updateBlogById_AuthorOnly(caller, input) ==
  IF ~Admits(updateBlogByIdProcedure, caller)
    THEN Rejected("updateBlogById", caller, input)
    ELSE
      IF input.id \notin DOMAIN post \/ post[input.id].authorId # caller
        THEN /\ resp' = InternalError("updateBlogById", caller, input)
             /\ UNCHANGED <<store, nextId, now, pending, ui>>
        ELSE
          LET blog == WriteColumns(post[input.id], RestInput(input)) IN
          /\ post' = [post EXCEPT ![input.id] = blog]
          /\ resp' = Reply("updateBlogById", caller, input, 201, "OK", <<blog>>)
          /\ UNCHANGED <<category, tag, comment, reaction, nextId, now, pending, ui>>

\* post.update({ where: { id } }) throws when no row has the id
updateBlogById(caller, input) ==
  IF ~Admits(updateBlogByIdProcedure, caller)
    THEN Rejected("updateBlogById", caller, input)
    ELSE
      LET id == input.id IN
      IF id \notin DOMAIN post
        THEN /\ resp' = InternalError("updateBlogById", caller, input)
             /\ UNCHANGED <<store, nextId, now, pending, ui>>
        ELSE
          LET blog == WriteColumns(post[id], RestInput(input)) IN
          /\ post' = [post EXCEPT ![id] = blog]
          /\ resp' = Reply("updateBlogById", caller, input, 201, "OK", <<blog>>)
          /\ UNCHANGED <<category, tag, comment, reaction, nextId, now, pending, ui>>

\* ------------------------------------------------------------- deleteBlogByBlogId
\* Mutant: the rows that reference the post stay.
Cascade_None(rows, id) == rows

\* The relations to Post are declared onDelete: Cascade.
Cascade(rows, id) == {r \in rows : r.postId # id}

\* Mutant: deleteMany, which reports a count and never throws.
PostDelete_Many(id) ==
  [threw |-> FALSE,
   rows |-> IF id \in DOMAIN post
              THEN <<[post |-> post[id], comment |-> CommentsOf(id)]>>
              ELSE <<[count |-> 0]>>]

\* post.delete({ where: { id }, include: { comment: true } }): the deleted
\* row with its comments; it throws when no row has the id.
PostDelete(id) ==
  IF id \in DOMAIN post
    THEN [threw |-> FALSE,
          rows |-> <<[post |-> post[id], comment |-> CommentsOf(id)]>>]
    ELSE [threw |-> TRUE, rows |-> <<>>]

deleteBlogByBlogId(caller, input) ==
  IF ~Admits(deleteBlogByBlogIdProcedure, caller)
    THEN Rejected("deleteBlogByBlogId", caller, input)
    ELSE
      LET result == PostDelete(input.id) IN
      IF result.threw
        THEN /\ resp' = InternalError("deleteBlogByBlogId", caller, input)
             /\ UNCHANGED <<store, nextId, now, pending, ui>>
        ELSE
          /\ post' = [i \in DOMAIN post \ {input.id} |-> post[i]]
          /\ comment' = Cascade(comment, input.id)
          /\ reaction' = Cascade(reaction, input.id)
          /\ tag' = Cascade(tag, input.id)
          \* if (!deleteBlog) throw new TRPCError({ code: "BAD_REQUEST" })
          /\ resp' = [(IF result.rows = <<>>
                          THEN Reply("deleteBlogByBlogId", caller, input, 400,
                                     "BAD_REQUEST", <<>>)
                          ELSE Reply("deleteBlogByBlogId", caller, input, 201,
                                     "OK", <<>>))
                       EXCEPT !.local = result.rows]
          /\ UNCHANGED <<category, nextId, now, pending, ui>>

\* ------------------------------------------------------------- comments, reactions
\* The comment and reaction procedures: a session user adds a row that
\* references an existing post.
createComment(caller, postId) ==
  /\ caller \in Users
  /\ postId \in DOMAIN post
  /\ comment' = comment \cup
       {[id |-> nextId.comment, postId |-> postId, userId |-> caller]}
  /\ nextId' = [nextId EXCEPT !.comment = @ + 1]
  /\ resp' = Reply("createComment", caller, [postId |-> postId], 201, "OK", <<>>)
  /\ UNCHANGED <<post, category, tag, reaction, now, pending, ui>>

createReaction(caller, postId, type) ==
  /\ caller \in Users
  /\ postId \in DOMAIN post
  /\ reaction' = reaction \cup
       {[id |-> nextId.reaction, postId |-> postId, userId |-> caller,
         type |-> type]}
  /\ nextId' = [nextId EXCEPT !.reaction = @ + 1]
  /\ resp' = Reply("createReaction", caller, [postId |-> postId], 201, "OK", <<>>)
  /\ UNCHANGED <<post, category, tag, comment, now, pending, ui>>

\* ------------------------------------------------------------- ImageContainer
DefaultAvatar == "https://api.dicebear.com/6.x/adventurer-neutral/svg?seed=Tigger"

ContainerProps == [className : ClassNames, gender : Genders, image : Images]

\* useState(false)
Mounted(props) == [props |-> props, imageLoadingError |-> FALSE]

\* Mutant: the handler toggles the flag.
handleImageLoadingError_Toggle(c) ==
  [c EXCEPT !.imageLoadingError = ~@]

\* handleImageLoadingError: setImageLoadingError(true)
handleImageLoadingError(c) == [c EXCEPT !.imageLoadingError = TRUE]

\* The element the component returns.
ImageContainer(c) ==
  IF c.imageLoadingError
    THEN [element |-> "img", src |-> DefaultAvatar, onError |-> FALSE]
    ELSE [element |-> "Image",
          src |-> IF c.props.image = "" THEN DefaultAvatar ELSE c.props.image,
          onError |-> TRUE]

\* The parent renders the component again with new props; state is kept.
Render(i, props) ==
  /\ containers' = [containers EXCEPT ![i].props = props]
  /\ UNCHANGED <<store, nextId, now, resp, pending>>

\* The image fails to load: the error event reaches the handler.
ImageError(i) ==
  /\ containers' = [containers EXCEPT ![i] = handleImageLoadingError(@)]
  /\ UNCHANGED <<store, nextId, now, resp, pending>>

\* ------------------------------------------------------------- clock
Tick ==
  /\ now < BootTime + MaxTicks
  /\ now' = now + 1
  /\ UNCHANGED <<store, nextId, resp, pending, ui>>

InitStore ==
  /\ post = <<>>
  /\ category = {}
  /\ tag = {}
  /\ comment = {}
  /\ reaction = {}
  /\ nextId = [post |-> 1, category |-> 1, comment |-> 1, reaction |-> 1]
  /\ now = BootTime
  /\ resp = NoResp
  /\ pending = EmptyBag

Init ==
  /\ InitStore
  /\ containers = <<>>

PostIds == 1..MaxPosts

\* A session user starts a create while fewer than max posts are written
\* or on their way, and fewer than MaxInFlight resolvers are suspended.  A
\* call without a session is made at any time.
Room(caller, max) ==
  caller \in Users =>
    /\ nextId.post + BagCardinality(pending) <= max
    /\ BagCardinality(pending) < MaxInFlight

\* ------------------------------------------------------------- the router
\* The seven procedures of the blog router.
\* Posts are created from one title and category here, with the clock
\* standing still; the title, the subtitle and the body change through
\* updateBlogById.
RouterInputs ==
  {i \in CreateInputs :
     i.title = <<"a", " ", "a">> /\ i.category = "TECH" /\ i.image = ""}
RouterTitles == {<<"b", " ", "a">>}

Next ==
  \/ \E caller \in Callers, input \in RouterInputs :
       Room(caller, MaxPosts) /\ createNewBlog(caller, input)
  \/ \E call \in BagToSet(pending), rejects \in BOOLEAN :
       postCreate(call, rejects)
  \/ \E caller \in Callers, tie \in TieOrders : getAllBlogs(caller, tie)
  \/ \E caller \in Callers, name \in CategoryEnum, tie \in TieOrders :
       getBlogsByCategory(caller, [category_name |-> name], tie)
  \/ \E caller \in Callers, id \in PostIds : getBlogById(caller, [id |-> id])
  \/ \E caller \in Callers, userId \in Users, tie \in TieOrders :
       getBlogByUserId(caller, [userId |-> userId], tie)
  \/ \E caller \in Callers, id \in PostIds,
        title \in Optional(RouterTitles), subtitle \in Optional(NewSubtitles),
        body \in Optional(Bodies) :
       updateBlogById(caller, UpdateInput(id, title, subtitle, body))
  \/ \E caller \in Callers, id \in PostIds :
       deleteBlogByBlogId(caller, [id |-> id])

Spec == Init /\ [][Next]_vars

\* ------------------------------------------------------------- deletion
\* Posts gather comments and reactions and are deleted.
NextDelete ==
  \/ \E caller \in Callers, input \in RouterInputs :
       Room(caller, MaxPosts) /\ createNewBlog(caller, input)
  \/ \E call \in BagToSet(pending), rejects \in BOOLEAN :
       postCreate(call, rejects)
  \/ \E caller \in Users, id \in PostIds :
       nextId.comment <= MaxComments /\ createComment(caller, id)
  \/ \E caller \in Users, id \in PostIds, type \in ReactionTypes :
       nextId.reaction <= MaxReactions /\ createReaction(caller, id, type)
  \/ \E caller \in Callers, id \in PostIds :
       deleteBlogByBlogId(caller, [id |-> id])

SpecDelete == Init /\ [][NextDelete]_vars

\* ------------------------------------------------------------- creation
\* One author writes posts from two titles: one with a word twice, one
\* with two spaces in a row.
SlugCallers == {"u1", NoSession}
SlugInputs == {i \in CreateInputs : i.title # <<"b", " ", "a">>}

NextCreate ==
  \/ \E caller \in SlugCallers, input \in SlugInputs :
       Room(caller, MaxCreates) /\ createNewBlog(caller, input)
  \/ \E call \in BagToSet(pending), rejects \in BOOLEAN :
       postCreate(call, rejects)
  \/ Tick

SpecCreate == Init /\ [][NextCreate]_vars

\* ------------------------------------------------------------- listing
\* One author fills the store; at most one post at a time is in a category
\* other than TECH.  The clock stands still until the store holds one post
\* less than a page.
QueryInputs ==
  {i \in CreateInputs : i.title = <<"b", " ", "a">> /\ i.image = ""}
Others == {p \in Rows(post) : CategoryOf(p).category_name # "TECH"}
OthersPending == {c \in BagToSet(pending) : c.input.category # "TECH"}

NextQuery ==
  \/ \E input \in QueryInputs :
       /\ Room("u1", MaxQueryPosts)
       /\ input.category = "TECH" \/ (Others = {} /\ OthersPending = {})
       /\ createNewBlog("u1", input)
  \/ \E call \in BagToSet(pending), rejects \in BOOLEAN :
       postCreate(call, rejects)
  \/ \E caller \in {"u1", NoSession}, name \in CategoryEnum, tie \in TieOrders :
       getBlogsByCategory(caller, [category_name |-> name], tie)
  \/ Len(post) >= TakeLimit - 1 /\ Tick

SpecQuery == Init /\ [][NextQuery]_vars

\* ------------------------------------------------------------- images
InitImage ==
  /\ InitStore
  /\ containers \in [1..NumContainers -> {Mounted(p) : p \in ContainerProps}]

NextImage ==
  \/ \E i \in 1..NumContainers, props \in ContainerProps : Render(i, props)
  \/ \E i \in 1..NumContainers : ImageError(i)

SpecImage == InitImage /\ [][NextImage]_vars

\* ============================================================= claims
Created == resp.op = "createNewBlog" /\ resp.status = 201
Deleted == resp.op = "deleteBlogByBlogId" /\ resp.status = 201
Updated == resp.op = "updateBlogById" /\ resp.status = 201

\* A step that is a call of the procedure by a session user.  Every
\* procedure call writes resp; a call that repeats the previous one with
\* the same outcome and no effect leaves the state as it is.
CallOf(op) == resp'.op = op /\ resp'.caller \in Users /\ resp' # resp

\* C1: a call of any procedure of the router made without a session is
\* rejected as UNAUTHORIZED, carries no data, and leaves the posts,
\* categories, tags, comments and reactions as they were.
C1_SessionRequired ==
  /\ [](resp.op # "none" /\ resp.caller = NoSession =>
          /\ resp.status = 401
          /\ resp.code = "UNAUTHORIZED"
          /\ resp.data = <<>>
          /\ resp.local = <<>>)
  /\ [][resp'.caller = NoSession => store' = store]_vars

C1_Witness ==
  /\ resp.op = "deleteBlogByBlogId"
  /\ resp.caller = NoSession
  /\ resp.input.id \in DOMAIN post
  /\ TagsOf(resp.input.id) # {}
  /\ category # {}

\* C2: every comment, reaction and tag references a post that exists, and
\* after a successful deleteBlogByBlogId the post is gone together with
\* the comments, reactions and tags that belonged to it.
C2_DeletesCascade ==
  /\ \A r \in comment : r.postId \in DOMAIN post
  /\ \A r \in reaction : r.postId \in DOMAIN post
  /\ \A r \in tag : r.postId \in DOMAIN post
  /\ Deleted =>
       /\ resp.input.id \notin DOMAIN post
       /\ CommentsOf(resp.input.id) = {}
       /\ ReactionsOf(resp.input.id) = {}
       /\ TagsOf(resp.input.id) = {}

C2_Witness ==
  /\ Deleted
  /\ resp.local[1].comment # {}
  /\ DOMAIN post # {}
  /\ comment = {}
  /\ reaction = {}
  /\ nextId.comment > 1
  /\ nextId.reaction > 1

\* C3: a createNewBlog that succeeds links the new post to the category
\* named input.category, reusing the row when one with that name exists
\* and creating it otherwise; no two categories share a category_name.
C3_CategoryUpsert ==
  /\ [](/\ \A c, d \in category : c.category_name = d.category_name => c = d
        /\ Created =>
             /\ resp.data[1].category.category_name = resp.input.category
             /\ resp.data[1].category \in category
             /\ resp.data[1].post.categoryId = resp.data[1].category.id)
  /\ [][CallOf("createNewBlog") /\ resp'.status = 201 =>
          IF \E c \in category : c.category_name = resp'.input.category
            THEN category' = category
            ELSE /\ category \subseteq category'
                 /\ Cardinality(category') = Cardinality(category) + 1]_vars

C3_Witness ==
  /\ Created
  /\ \E i, j \in DOMAIN post : i # j /\ post[i].categoryId = post[j].categoryId
  /\ Cardinality(category) = 1

\* C4: createNewBlog attaches to the new post one tag for each word of the
\* title, and tags are upserted: a tag name is stored once, however many
\* posts or title words carry it.
C4_TagsUpserted ==
  /\ Created =>
        {t.tag_name : t \in TagsOf(resp.data[1].post.id)}
          = {Split(resp.input.title)[i] :
               i \in 1..Len(Split(resp.input.title))}
  /\ \A t, u \in tag : t.tag_name = u.tag_name => t = u

\* The value of a string of decimal digits.
RECURSIVE DecimalValue(_)
DecimalValue(digits) ==
  IF digits = <<>> THEN 0
  ELSE 10 * DecimalValue(SubSeq(digits, 1, Len(digits) - 1))
       + (CHOOSE d \in 0..9 : DigitChar(d) = digits[Len(digits)])

\* C5: the slug of a created post is its title with "-" for each space,
\* then "-", then the time the call read from Date.now(), in decimal; two
\* createNewBlog calls with the same title that read the same time carry
\* the same slug, whether written or still on their way.
C5_SlugIsTitleAndTime ==
  /\ Created =>
       LET title == resp.input.title
           p == resp.data[1].post
           read == resp.local[1].dateNow
           n == Len(title)
           stamp == SubSeq(p.slug, n + 2, Len(p.slug))
       IN /\ Len(p.slug) >= n + 2
          /\ \A i \in 1..n :
               p.slug[i] = IF title[i] = " " THEN "-" ELSE title[i]
          /\ p.slug[n + 1] = "-"
          /\ \A i \in 1..Len(stamp) : stamp[i] \in {DigitChar(d) : d \in 0..9}
          /\ Len(stamp) > 1 => stamp[1] # "0"
          /\ DecimalValue(stamp) = read
          /\ p.slug = resp.local[1].slug
          /\ \A c \in BagToSet(pending) :
               c.input.title = title /\ c.dateNow = read => c.slug = p.slug
  /\ \A c, d \in BagToSet(pending) :
       c.input.title = d.input.title /\ c.dateNow = d.dateNow
         => c.slug = d.slug

\* Two posts carry one slug, and both were written after the clock moved
\* on from the time in the slug: the two calls were suspended together.
C5_Witness ==
  /\ Created
  /\ \E i, j \in DOMAIN post :
       /\ i # j
       /\ post[i].slug = post[j].slug
       /\ post[i].createdAt > resp.local[1].dateNow
       /\ post[j].createdAt > resp.local[1].dateNow
  /\ Len(NumberToString(resp.data[1].post.createdAt)) > 1

\* C6: getBlogsByCategory answers 200 with posts of the named category
\* only, newest first, at most 10 of them, and when more match, none of
\* the posts left out is newer than a post returned.
C6_ByCategoryNewestTen ==
  resp.op = "getBlogsByCategory" /\ resp.caller \in Users =>
    LET rows == resp.data
        name == resp.input.category_name
        matching == {q \in Rows(post) :
                       \E c \in category :
                         c.id = q.categoryId /\ c.category_name = name}
        returned == {rows[i].id : i \in 1..Len(rows)}
    IN /\ resp.status = 200
       /\ \A i \in 1..Len(rows) :
            /\ rows[i].category.category_name = name
            /\ rows[i].id \in DOMAIN post
            /\ post[rows[i].id] \in matching
            /\ rows[i].createdAt = post[rows[i].id].createdAt
       /\ \A i, j \in 1..Len(rows) :
            /\ i # j => rows[i].id # rows[j].id
            /\ i < j => rows[i].createdAt >= rows[j].createdAt
       /\ Len(rows) <= 10
       /\ Len(rows) = IF Cardinality(matching) < 10
                        THEN Cardinality(matching) ELSE 10
       /\ \A q \in matching :
            q.id \notin returned =>
              \A i \in 1..Len(rows) : rows[i].createdAt >= q.createdAt

C6_Witness ==
  /\ resp.op = "getBlogsByCategory"
  /\ resp.caller \in Users
  /\ Len(resp.data) = 10
  /\ Cardinality(InCategory(resp.input.category_name)) > 10
  /\ resp.data[1].createdAt > resp.data[10].createdAt
  /\ Others # {}

\* C7: a container without a load error shows the given image, or the
\* default avatar when the image string is empty; once a load error has
\* occurred it shows the fallback avatar, and no later error or render
\* brings the given image back.
C7_FallbackIsFinal ==
  /\ [](\A i \in DOMAIN containers :
          LET c == containers[i] IN
          IF c.imageLoadingError
            THEN ImageContainer(c).element = "img"
                 /\ ImageContainer(c).src = DefaultAvatar
            ELSE ImageContainer(c).element = "Image"
                 /\ ImageContainer(c).src =
                      (IF c.props.image = "" THEN DefaultAvatar
                       ELSE c.props.image))
  /\ [][\A i \in DOMAIN containers :
          containers[i].imageLoadingError =>
            /\ containers'[i].imageLoadingError
            /\ ImageContainer(containers'[i]).src = DefaultAvatar]_vars

C7_Witness ==
  \E i \in DOMAIN containers :
    /\ containers[i].imageLoadingError
    /\ containers[i].props.image # ""
    /\ ImageContainer(containers[i]).src # containers[i].props.image

\* C8: deleteBlogByBlogId answers 201 exactly when a post had the given
\* id, and then removes that post and no other; when no post has the id
\* the call ends in an error and the store is unchanged.  BAD_REQUEST is
\* answered only when the delete yields no post.
C8_DeleteExactlyOne ==
  [][CallOf("deleteBlogByBlogId") =>
       LET id == resp'.input.id IN
       /\ IF id \in DOMAIN post
            THEN /\ resp'.status = 201
                 /\ DOMAIN post' = DOMAIN post \ {id}
            ELSE /\ resp'.status # 201
                 /\ resp'.code # "OK"
                 /\ store' = store
       /\ \A i \in DOMAIN post \ {id} : i \in DOMAIN post' /\ post'[i] = post[i]
       /\ resp'.code = "BAD_REQUEST" => resp'.local = <<>>]_vars

C8_Witness ==
  /\ Deleted
  /\ DOMAIN post # {}
  /\ resp.local[1].post.id = resp.input.id

\* C9: updateBlogById on an existing post answers 201 with the updated
\* post; the post keeps its id and the columns the input leaves out, takes
\* the columns the input gives, and every other post, the number of posts
\* and the other tables are unchanged.
C9_UpdateOnlyThatPost ==
  [][CallOf("updateBlogById") /\ resp'.input.id \in DOMAIN post =>
       LET input == resp'.input
           id == input.id
       IN /\ resp'.status = 201
          /\ DOMAIN post' = DOMAIN post
          /\ \A i \in DOMAIN post \ {id} : post'[i] = post[i]
          /\ post'[id].id = id
          /\ \A f \in DOMAIN post[id] \ DOMAIN input : post'[id][f] = post[id][f]
          /\ \A f \in DOMAIN input \ {"id"} : post'[id][f] = input[f]
          /\ resp'.data = <<post'[id]>>
          /\ <<category, tag, comment, reaction>>' =
               <<category, tag, comment, reaction>>]_vars

C9_Witness ==
  /\ Updated
  /\ "title" \in DOMAIN resp.input
  /\ "subtitle" \notin DOMAIN resp.input
  /\ \E i \in DOMAIN post : i # resp.input.id
  /\ post[resp.input.id].title # <<"a", " ", "a">>
  /\ post[resp.input.id].subtitle = "s2"

\* C10: a created post has the calling session's user as its author, and
\* updateBlogById and deleteBlogByBlogId succeed on an existing post for a
\* session user who is not its author.
C10_AnyUserMayWrite ==
  /\ [](Created => resp.data[1].post.authorId = resp.caller)
  /\ [][/\ CallOf("updateBlogById") \/ CallOf("deleteBlogByBlogId")
        /\ resp'.input.id \in DOMAIN post
        /\ post[resp'.input.id].authorId # resp'.caller
        => /\ resp'.status = 201
           /\ resp'.op = "deleteBlogByBlogId" => resp'.input.id \notin DOMAIN post'
           /\ resp'.op = "updateBlogById" =>
                post'[resp'.input.id] = resp'.data[1]]_vars

C10_Witness ==
  /\ Deleted
  /\ resp.local[1].post.authorId \in Users \ {resp.caller}
====
